---------------------------- MODULE Spec2Model ----------------------------
(***************************************************************************)
(* Model of the SKU / image-validation / review pipeline.                  *)
(*                                                                         *)
(*   Spec        SKUGenerator.generate_sku running in two request          *)
(*               processes against an identifier store                     *)
(*               (backend/services/sku_generator.py)                       *)
(*   SpecReview  the review-task handlers of run_server.py                 *)
(*   SpecScore   ImageValidator.validate_image scoring and decision        *)
(*               (backend/services/image_validator.py)                     *)
(*   SpecSlug    SKUGenerator._slugify on its own                          *)
(*   SpecChecks  ImageValidator.__init__ and the five checks of            *)
(*               validate_image on an image file                           *)
(*   SpecQueue   the ReviewQueue service (backend/services/review_queue.py)*)
(*   SpecPending the pending-task list of run_server.py                    *)
(*   SpecTriage  validate_image followed by ReviewQueue.create_review_task *)
(*                                                                         *)
(* Strings are sequences of one-character strings, so that slicing,        *)
(* filtering and length are computed as the Python code computes them.     *)
(***************************************************************************)
EXTENDS Integers, Sequences, FiniteSets, Bags, TLC

VARIABLES
    opts,       \* the SKUGenerator's max_sku_length and hash_suffix_length
    db,         \* which store the generator talks to: "mock" | "unique"
    genOf,      \* request process -> generator instance (one store each)
    store,      \* generator -> set of identifiers held by its products table
    call,       \* request process -> state of its generate_sku call
    issued,     \* generator -> bag of the non-empty identifiers it has returned
    ncalls,     \* generate_sku calls started so far
    db_errors,  \* store failures (not conflicts) raised so far
    review_tasks,       \* run_server.review_tasks
    task_counter,       \* run_server.task_counter
    submissions_db,     \* run_server.submissions_db
    submission_counter, \* run_server.submission_counter
    uploading,          \* vendor -> its upload_image handler suspended at file.read()
    inflight,           \* reviewer -> the submit-decision request on its way in
    response,           \* reviewer -> the answer to its last submit-decision
    nsubmits,           \* submit-decision requests received so far
    now,                \* the latest value datetime.now() has returned (ms)
    page,               \* the last get-pending request and the tasks it returned
    validator,          \* the ImageValidator's configuration
    checks,             \* the five check scores of the image under validation
    metrics,            \* ValidationMetrics of the last validate_image call
    prev,               \* checks and metrics of the call before it
    slugging,           \* the _slugify call under way: argument, result, passes
    libs,               \* PIL_AVAILABLE, CV2_AVAILABLE, IMAGEHASH_AVAILABLE
    limits,             \* the validator's blur threshold and coverage band
    file,               \* the image file at image_path, as the libraries read it
    reference,          \* the reference_image_path argument of the last call
    weights_arg,        \* the weights argument ImageValidator was constructed with
    logged,             \* warnings logged by ImageValidator.__init__
    nvalidated,         \* validate_image calls on the file so far
    queue_opts,         \* ReviewQueue's default_sla_hours, enable_priority_assignment
    handed,             \* task ids ReviewQueue.create_review_task has returned
    assigned,           \* task ids for which assign_task has returned True
    decided,            \* task ids for which a terminal decision was acknowledged
    answer              \* the last ReviewQueue call and what it returned

skuVars == <<opts, db, genOf, store, call, issued, ncalls, db_errors>>
reviewVars == <<review_tasks, task_counter, submissions_db, submission_counter,
                uploading, inflight, response, nsubmits, now, page>>
scoreVars == <<validator, checks, metrics, prev>>
slugVars == <<slugging>>
checkVars == <<libs, limits, file, reference, weights_arg, logged, nvalidated>>
queueVars == <<queue_opts, handed, assigned, decided, answer>>
vars == <<skuVars, reviewVars, scoreVars, slugVars, checkVars, queueVars>>

---------------------------------------------------------------------------
(* Bounds of the model *)

MaxSkuLength == 6       \* max_sku_length of the short-identifier generator
HashSuffixLength == 1   \* hash_suffix_length of the short-identifier generator
LongSkuLength == 14     \* max_sku_length of the long-suffix generator
LongSuffixLength == 10  \* hash_suffix_length of the long-suffix generator
OverCapSuffixLength == 12  \* hash_suffix_length of the over-cap generator
MaxRetries == 2         \* the max_retries argument of every call
MaxCalls == 2           \* generate_sku calls in one behaviour
MaxDbErrors == 1        \* store failures that are not conflicts
MaxTasks == 2           \* review tasks created in one behaviour
MaxSubmits == 2         \* submit-decision requests in one behaviour
ScoreSteps == 5         \* a check score is one of 0, 1/ScoreSteps, ..., 1
MaxCodeLen == 3          \* longest raw code handed to _slugify on its own
MaxValidations == 2     \* validate_image calls on one file in one behaviour
MaxClock == 1           \* milliseconds that pass in one behaviour
MaxTaskId == 1          \* ReviewQueue task ids are 0..MaxTaskId

(* Program constants *)

SlugMaxLen == 40        \* _slugify's default max_len
HashBits == 64          \* bits of a perceptual hash (h1.hash.size)
DefaultSlaHours == 48   \* timedelta(hours=48), ReviewQueue.default_sla_hours
MsPerHour == 3600000    \* timedelta(hours=1) on a clock read in milliseconds
HashSuffixCap == 10     \* min(hash_suffix_length + attempt, 10)

Procs == {1, 2}
Gens == {1, 2}

---------------------------------------------------------------------------
(* Python string primitives *)

LowerLetters == <<"a","b","c","d","e","f","g","h","i","j","k","l","m",
                  "n","o","p","q","r","s","t","u","v","w","x","y","z">>
UpperLetters == <<"A","B","C","D","E","F","G","H","I","J","K","L","M",
                  "N","O","P","Q","R","S","T","U","V","W","X","Y","Z">>
DigitChars == <<"0","1","2","3","4","5","6","7","8","9">>

Range(s) == {s[i] : i \in DOMAIN s}

\* s[:n], also for a negative n (which counts from the end)
PySlicePrefix(s, n) ==
    LET stop == IF n >= 0 THEN (IF n < Len(s) THEN n ELSE Len(s))
                ELSE (IF Len(s) + n > 0 THEN Len(s) + n ELSE 0)
    IN  SubSeq(s, 1, stop)

\* str.upper() of one character
UpperChar(c) ==
    IF c \in Range(LowerLetters)
    THEN UpperLetters[CHOOSE i \in DOMAIN LowerLetters : LowerLetters[i] = c]
    ELSE c

upper(s) == [i \in DOMAIN s |-> UpperChar(s[i])]

\* re.sub(r'[^A-Z0-9]+', '', code)
StripNonAlnum(s) ==
    SelectSeq(s, LAMBDA c : c \in Range(UpperLetters) \cup Range(DigitChars))

\* str(n) for n >= 0
RECURSIVE IntToStr(_)
IntToStr(n) ==
    IF n < 10 THEN <<DigitChars[n + 1]>>
    ELSE IntToStr(n \div 10) \o <<DigitChars[(n % 10) + 1]>>

\* the sequence of characters as one TLA+ string
RECURSIVE Str(_)
Str(s) == IF s = <<>> THEN "" ELSE s[1] \o Str(Tail(s))

---------------------------------------------------------------------------
(* SKUGenerator._slugify *)

\* (mutant) the cut keeps one character more than max_len
slugify_cut_late(code, max_len) ==
    IF code = <<>> THEN <<>>
    ELSE PySlicePrefix(StripNonAlnum(upper(code)), max_len + 1)

\* (mutant) the cut is made on the raw code, before the clean-up
slugify_cut_first(code, max_len) ==
    IF code = <<>> THEN <<>>
    ELSE StripNonAlnum(upper(PySlicePrefix(code, max_len)))

slugify(code, max_len) ==
    IF code = <<>> THEN <<>>
    ELSE PySlicePrefix(StripNonAlnum(upper(code)), max_len)

\* the characters raw codes are made of: a lower-case letter, an upper-case
\* letter, a digit and two separators
CodeChars == {"a", "B", "7", "-", "_"}

\* the raw codes of up to n characters
RECURSIVE CodesUpTo(_)
CodesUpTo(n) ==
    IF n = 0 THEN {<<>>}
    ELSE CodesUpTo(n - 1) \cup
         {Append(c, ch) : c \in {d \in CodesUpTo(n - 1) : Len(d) = n - 1},
                          ch \in CodeChars}

\* the max_len arguments: every length around the codes', and the default
MaxLens == (0..(MaxCodeLen + 1)) \cup {SlugMaxLen}

\* _slugify(code, max_len) called on a raw code
Slugify ==
    /\ slugging.passes = 0
    /\ slugging' = [slugging EXCEPT !.passes = 1,
                       !.slug = slugify(slugging.code, slugging.max_len)]
    /\ UNCHANGED <<skuVars, reviewVars, scoreVars, checkVars, queueVars>>

\* _slugify called again on the slug it returned
Reslugify ==
    /\ slugging.passes = 1
    /\ slugging' = [slugging EXCEPT !.passes = 2,
                       !.code = slugging.slug,
                       !.slug = slugify(slugging.slug, slugging.max_len)]
    /\ UNCHANGED <<skuVars, reviewVars, scoreVars, checkVars, queueVars>>

\* no _slugify call of its own under way
InitSlugIdle == slugging = [passes |-> 0, code |-> <<>>, max_len |-> -1,
                            slug |-> <<>>, raw |-> <<>>]

InitSlug ==
    \E code \in CodesUpTo(MaxCodeLen), max_len \in MaxLens :
       slugging = [passes |-> 0, code |-> code, max_len |-> max_len,
                   slug |-> <<>>, raw |-> code]

(* SKUGenerator._short_hash *)

\* int(hashlib.sha1(value).hexdigest()[:12], 16) as two 24-bit limbs <<hi, lo>>,
\* tabulated for the hash inputs the model's requests produce
Sha1Prefix48 ==
    ("a:1:0" :> <<9935645, 13239348>>) @@
    ("a:1:1" :> <<12397508, 13030443>>) @@
    ("a:1:2" :> <<70895, 9700339>>) @@
    ("a:1:3" :> <<1569972, 9524397>>) @@
    ("a:1:4" :> <<4607619, 16069591>>) @@
    ("a:2:0" :> <<7726819, 3706181>>) @@
    ("a:2:1" :> <<10804422, 4982987>>) @@
    ("a:2:2" :> <<8747967, 5337953>>) @@
    ("a:2:3" :> <<2325314, 2439879>>) @@
    ("a:2:4" :> <<8337825, 12038346>>) @@
    ("A:1:0" :> <<5770894, 18621>>) @@
    ("A:1:1" :> <<10817434, 8073195>>) @@
    ("A:1:2" :> <<536143, 2304928>>) @@
    ("A:1:3" :> <<7170632, 437545>>) @@
    ("A:1:4" :> <<9427389, 14828987>>) @@
    ("A:2:0" :> <<4930935, 7050239>>) @@
    ("A:2:1" :> <<121150, 11114>>) @@
    ("A:2:2" :> <<11494591, 14096894>>) @@
    ("A:2:3" :> <<4702356, 5910048>>) @@
    ("A:2:4" :> <<5734290, 3424521>>) @@
    ("ab-c:1:0" :> <<613062, 4046114>>) @@
    ("ab-c:1:1" :> <<3795473, 7141641>>) @@
    ("ab-c:1:2" :> <<16107842, 10155736>>) @@
    ("ab-c:1:3" :> <<7663289, 16193443>>) @@
    ("ab-c:1:4" :> <<16706952, 1595960>>) @@
    ("ab-c:2:0" :> <<5450912, 6237608>>) @@
    ("ab-c:2:1" :> <<8150861, 956495>>) @@
    ("ab-c:2:2" :> <<969914, 13848434>>) @@
    ("ab-c:2:3" :> <<4245159, 15614357>>) @@
    ("ab-c:2:4" :> <<7524024, 14526738>>) @@
    ("o:1:0" :> <<6738089, 10138816>>) @@
    ("o:1:1" :> <<2684104, 11408262>>) @@
    ("o:1:2" :> <<14563578, 16743998>>) @@
    ("o:1:3" :> <<8770571, 10221796>>) @@
    ("o:1:4" :> <<9262964, 3055716>>)

Alphabet == DigitChars \o UpperLetters
Limb == 16777216    \* 2^24

\* the loop: out.append(alphabet[val % 36]); val //= 36, on val = hi * 2^24 + lo
RECURSIVE Base36Digits(_, _, _)
Base36Digits(hi, lo, length) ==
    IF length <= 0 THEN <<>>
    ELSE LET t == (hi % Len(Alphabet)) * Limb + lo
         IN  <<Alphabet[(t % Len(Alphabet)) + 1]>>
             \o Base36Digits(hi \div Len(Alphabet), t \div Len(Alphabet),
                             length - 1)

short_hash(value, length) ==
    LET val == Sha1Prefix48[Str(value)]
    IN  Base36Digits(val[1], val[2], length)

Min(a, b) == IF a < b THEN a ELSE b

\* f"{raw_code}:{vendor_id}:{attempt}"
hash_input(raw_code, vendor_id, attempt) ==
    raw_code \o <<":">> \o IntToStr(vendor_id) \o <<":">> \o IntToStr(attempt)

\* (mutant) the suffix is salted with the number of calls made so far
suffix_of_call_salted(raw_code, vendor_id, attempt) ==
    short_hash(hash_input(raw_code, vendor_id, attempt + ncalls),
               Min(opts.hash_suffix_length + attempt, HashSuffixCap))

\* (mutant) every attempt uses hash_suffix_length characters
suffix_of_fixed_length(raw_code, vendor_id, attempt) ==
    short_hash(hash_input(raw_code, vendor_id, attempt),
               Min(opts.hash_suffix_length, HashSuffixCap))

\* the suffix of the given attempt
suffix_of(raw_code, vendor_id, attempt) ==
    short_hash(hash_input(raw_code, vendor_id, attempt),
               Min(opts.hash_suffix_length + attempt, HashSuffixCap))

\* (mutant) the namespace is left out of the base
base_candidate_without_namespace(vendor_short, slug0) ==
    <<"S", "K", "U", "-">> \o slug0

\* the base candidate of lines 147-156, for a non-empty slug
base_candidate_of(vendor_short, slug0) ==
    LET base0 == vendor_short \o <<"-">> \o slug0
        available_for_suffix == opts.max_sku_length - Len(base0) - 1
    IN  IF available_for_suffix < 0
        THEN LET max_slug_len == opts.max_sku_length - Len(vendor_short) - 2
             IN  vendor_short \o <<"-">> \o PySlicePrefix(slug0, max_slug_len)
        ELSE base0

\* (mutant) the suffix is left off
candidate_without_suffix(base, raw_code, vendor_id, attempt) == base

candidate_with_suffix(base, raw_code, vendor_id, attempt) ==
    base \o <<"-">> \o suffix_of(raw_code, vendor_id, attempt)

---------------------------------------------------------------------------
(* The identifier store behind _insert_product_sku *)

\* what one _insert_product_sku(canonical_sku, ...) call can do, given the
\* identifiers the products table holds.  "mock" is the placeholder body of the
\* source, which writes nothing and returns True.  "unique" is the store its
\* docstring and commented-out INSERT describe: True when the row is inserted,
\* an exception on a unique-constraint violation or on a database error.
insert_product_sku(canonical_sku, contents) ==
    IF db = "mock" THEN {"inserted"}
    ELSE (IF canonical_sku \in contents THEN {"conflict"} ELSE {"inserted"})
         \cup (IF db_errors < MaxDbErrors THEN {"db_error"} ELSE {})

\* (mutant) the inserted row is lost
store_after_row_lost(canonical_sku, contents, outcome) == contents

\* the products table after the call
store_after(canonical_sku, contents, outcome) ==
    IF db = "unique" /\ outcome = "inserted"
    THEN contents \cup {canonical_sku}
    ELSE contents

---------------------------------------------------------------------------
(* SKUGenerator.generate_sku *)

Idle ==
    [pc |-> "idle", raw_code |-> <<>>, vendor_id |-> 0, vendor_short |-> <<>>,
     max_retries |-> 0, base_candidate |-> <<>>, attempt |-> 0, log |-> <<>>,
     store0 |-> {}, sku |-> <<>>, status |-> "none"]

\* the requests the processes draw their arguments from
Requests ==
    { [raw_code |-> <<>>,                vendor_id |-> 1, vendor_short |-> <<"V">>],
      [raw_code |-> <<"-">>,             vendor_id |-> 1, vendor_short |-> <<"V">>],
      [raw_code |-> <<"a">>,             vendor_id |-> 1, vendor_short |-> <<>>],
      [raw_code |-> <<"a">>,             vendor_id |-> 1, vendor_short |-> <<"V">>],
      [raw_code |-> <<"A">>,             vendor_id |-> 1, vendor_short |-> <<"V">>],
      [raw_code |-> <<"a">>,             vendor_id |-> 2, vendor_short |-> <<"V">>],
      [raw_code |-> <<"a">>,             vendor_id |-> 2, vendor_short |-> <<"V","W">>],
      [raw_code |-> <<"a","b","-","c">>, vendor_id |-> 1, vendor_short |-> <<"V">>],
      [raw_code |-> <<"a","b","-","c">>, vendor_id |-> 2, vendor_short |-> <<"V","W">>],
      [raw_code |-> <<"a">>,             vendor_id |-> 2,
       vendor_short |-> <<"V","W","X","Y">>],
      [raw_code |-> <<"a","b","-","c">>, vendor_id |-> 1,
       vendor_short |-> <<"V","W","X","Y","Z">>],
      [raw_code |-> <<"o">>,             vendor_id |-> 1, vendor_short |-> <<"V">>],
      [raw_code |-> <<"o">>,             vendor_id |-> 1,
       vendor_short |-> <<"V","-","O">>] }

\* (mutant) the vendor_short test is missing
invalid_input_raw_only(raw_code, vendor_short) ==
    \/ raw_code = <<>>
    \/ slugify(raw_code, SlugMaxLen) = <<>>

\* lines 138-145: "if not raw_code or not vendor_short" and "if not slug"
invalid_input(raw_code, vendor_short) ==
    \/ raw_code = <<>>
    \/ vendor_short = <<>>
    \/ slugify(raw_code, SlugMaxLen) = <<>>

\* (mutant) a conflict is swallowed and the candidate returned all the same
insert_accepted_despite_conflict(outcome) == outcome \in {"inserted", "conflict"}

\* "if result:" after an insert that did not raise
insert_accepted(outcome) == outcome = "inserted"

\* (mutant) range(max_retries + 1)
retries_exhausted_late(attempt, max_retries) == attempt > max_retries

\* "for attempt in range(max_retries)" has run out
retries_exhausted(attempt, max_retries) == attempt >= max_retries

\* (mutant) the length test is missing
candidate_never_too_long(candidate) == FALSE

\* "if len(candidate_with_suffix) > self.max_sku_length: continue"
candidate_too_long(candidate) == Len(candidate) > opts.max_sku_length

\* return (sku, status)
Return(p, c, sku, status) ==
    /\ call' = [call EXCEPT ![p] = [c EXCEPT !.pc = "done", !.sku = sku,
                                            !.status = status]]
    /\ issued' = IF sku # <<>>
                 THEN [issued EXCEPT ![genOf[p]] = @ (+) SetToBag({sku})]
                 ELSE issued

\* go on with the given attempt of the retry loop, or leave the loop
Continue(p, c, attempt) ==
    IF retries_exhausted(attempt, c.max_retries)
    THEN Return(p, [c EXCEPT !.attempt = attempt], <<>>, "conflict_unresolved")
    ELSE /\ call' = [call EXCEPT ![p] = [c EXCEPT !.pc = "retry",
                                                 !.attempt = attempt]]
         /\ UNCHANGED issued

\* lines 138-156: validation, slug and base candidate
generate_sku(p, req) ==
    /\ call[p].pc \in {"idle", "done"}
    /\ ncalls < MaxCalls
    /\ ncalls' = ncalls + 1
    /\ LET c == [Idle EXCEPT !.raw_code = req.raw_code,
                             !.vendor_id = req.vendor_id,
                             !.vendor_short = req.vendor_short,
                             !.max_retries = MaxRetries,
                             !.store0 = store[genOf[p]]]
       IN  IF invalid_input(req.raw_code, req.vendor_short)
           THEN Return(p, c, <<>>, "error")
           ELSE /\ call' = [call EXCEPT ![p] =
                     [c EXCEPT !.pc = "insert_base",
                               !.base_candidate =
                                   base_candidate_of(req.vendor_short,
                                       slugify(req.raw_code, SlugMaxLen))]]
                /\ UNCHANGED issued
    /\ UNCHANGED <<opts, db, genOf, store, db_errors, reviewVars, scoreVars, slugVars, checkVars, queueVars>>

\* one _insert_product_sku call of the process, with its outcome
Insert(p, c, canonical_sku, outcome) ==
    /\ outcome \in insert_product_sku(canonical_sku, store[genOf[p]])
    /\ store' = [store EXCEPT ![genOf[p]] =
                    store_after(canonical_sku, @, outcome)]
    /\ db_errors' = IF outcome = "db_error" THEN db_errors + 1 ELSE db_errors

Logged(c, canonical_sku, outcome) ==
    [c EXCEPT !.log = Append(@, [sku |-> canonical_sku, outcome |-> outcome])]

\* lines 158-169: try the base candidate
InsertBase(p) ==
    /\ call[p].pc = "insert_base"
    /\ \E outcome \in {"inserted", "conflict", "db_error"} :
         LET c == Logged(call[p], call[p].base_candidate, outcome)
         IN  /\ Insert(p, call[p], call[p].base_candidate, outcome)
             /\ IF insert_accepted(outcome)
                THEN Return(p, c, c.base_candidate, "inserted")
                ELSE Continue(p, c, 0)
    /\ UNCHANGED <<opts, db, genOf, ncalls, reviewVars, scoreVars, slugVars, checkVars, queueVars>>

\* lines 172-194: one iteration of the retry loop that tries its candidate
RetryInsert(p) ==
    /\ call[p].pc = "retry"
    /\ LET cand == candidate_with_suffix(call[p].base_candidate,
                       call[p].raw_code, call[p].vendor_id, call[p].attempt)
       IN  /\ ~candidate_too_long(cand)
           /\ \E outcome \in {"inserted", "conflict", "db_error"} :
                LET c == Logged(call[p], cand, outcome)
                IN  /\ Insert(p, call[p], cand, outcome)
                    /\ IF insert_accepted(outcome)
                       THEN Return(p, c, cand, "conflict_resolved")
                       ELSE Continue(p, c, c.attempt + 1)
    /\ UNCHANGED <<opts, db, genOf, ncalls, reviewVars, scoreVars, slugVars, checkVars, queueVars>>

\* lines 178-181: an iteration whose candidate is longer than max_sku_length
RetrySkip(p) ==
    /\ call[p].pc = "retry"
    /\ candidate_too_long(candidate_with_suffix(call[p].base_candidate,
           call[p].raw_code, call[p].vendor_id, call[p].attempt))
    /\ Continue(p, call[p], call[p].attempt + 1)
    /\ UNCHANGED <<opts, db, genOf, store, ncalls, db_errors, reviewVars,
                   scoreVars, slugVars, checkVars, queueVars>>

\* main.py, POST /api/v1/sku/generate: the GenerateSKUResponse built from what
\* generate_sku returned
GenerateSKUResponse(canonical_sku, status) ==
    IF canonical_sku = <<>>
    THEN [canonical_sku |-> <<>>, status |-> "error"]
    ELSE [canonical_sku |-> canonical_sku, status |-> status]

\* the rows earlier runs of generate_sku("a", 1, "V") leave in a products table
\* with a unique constraint: the base and the first k candidates that fit
SeedRows(k) ==
    LET base == base_candidate_of(<<"V">>, slugify(<<"a">>, SlugMaxLen))
        cands == {candidate_with_suffix(base, <<"a">>, 1, i) : i \in 0..(k - 1)}
    IN  {base} \cup {cand \in cands : ~candidate_too_long(cand)}

\* the row an earlier run of generate_sku("o", 1, "V") leaves
SeedRowO == {base_candidate_of(<<"V">>, slugify(<<"o">>, SlugMaxLen))}

SeedStores == {{}, SeedRowO} \cup {SeedRows(k) : k \in 0..MaxRetries}

\* SKUGenerator.__init__: the generator configurations of the model, the
\* last with a hash_suffix_length above the cap of 10 on the suffix length
GeneratorOptions ==
    { [max_sku_length |-> MaxSkuLength, hash_suffix_length |-> HashSuffixLength],
      [max_sku_length |-> LongSkuLength, hash_suffix_length |-> LongSuffixLength],
      [max_sku_length |-> LongSkuLength,
       hash_suffix_length |-> OverCapSuffixLength] }

\* both generators start on tables with the same rows
InitSku ==
    /\ opts \in GeneratorOptions
    /\ ncalls = 0
    /\ db \in {"mock", "unique"}
    /\ genOf \in {[p \in Procs |-> 1], [p \in Procs |-> p]}
    /\ \E rows \in SeedStores :
         /\ db = "mock" => rows = {}
         /\ store = [g \in Gens |-> rows]
    /\ call = [p \in Procs |-> Idle]
    /\ issued = [g \in Gens |-> EmptyBag]
    /\ db_errors = 0

---------------------------------------------------------------------------
(* run_server.py: uploads, review tasks and decisions *)

Vendors == {"vendor1", "vendor2"}
Reviewers == {"official1", "official2"}
ContentTypes == {"image/jpeg", "text/plain"}
Decisions == {"accepted", "rejected", "requires_edit", "escalate",
              "in_progress"}
ScoresGiven == {350, 720}      \* validation_score of a create-task request, in 1/1000
NoRequest == [task_id |-> 0]
NoUpload == [n |-> 0]
NoPage == [op |-> "none"]

TerminalStatuses == {"accepted", "rejected", "requires_edit"}
\* the values of the ReviewStatus enumeration
ReviewStatus == {"pending", "in_progress"} \cup TerminalStatuses
IsTerminal(status) == status \in TerminalStatuses

\* index of the first element of the list with the given id, 0 if there is none
FirstWithId(list, id) ==
    IF \E i \in DOMAIN list : list[i].id = id
    THEN CHOOSE i \in DOMAIN list :
            list[i].id = id /\ \A j \in 1..(i - 1) : list[j].id # id
    ELSE 0

StatusOfTask(id) ==
    IF FirstWithId(review_tasks, id) = 0 THEN "missing"
    ELSE review_tasks[FirstWithId(review_tasks, id)].status

\* upload_image up to "content = await file.read()"
UploadStart(v, content_type) ==
    /\ uploading[v] = NoUpload
    /\ submission_counter < MaxTasks
    /\ content_type \in {"image/jpeg", "image/png"}
    /\ submission_counter' = submission_counter + 1
    /\ uploading' = [uploading EXCEPT ![v] =
          [n |-> submission_counter + 1,
           ext |-> IF content_type = "image/jpeg" THEN "jpg" ELSE "png"]]
    /\ UNCHANGED <<review_tasks, task_counter, submissions_db, inflight,
                   response, nsubmits, now, page, skuVars, scoreVars, slugVars,
                   checkVars, queueVars>>

\* upload_image refusing a file that is neither JPEG nor PNG (HTTP 400)
UploadRefused(v, content_type) ==
    /\ uploading[v] = NoUpload
    /\ content_type \notin {"image/jpeg", "image/png"}
    /\ UNCHANGED vars

\* datetime.now() read twice in a row: the second reading is not earlier
\* than the first, and neither is earlier than the last one taken
ClockReadings == {t \in (now..MaxClock) \X (now..MaxClock) : t[1] <= t[2]}

\* "(datetime.now() + timedelta(hours=48))", t the value datetime.now() returned
due_by_of(t) == t + DefaultSlaHours * MsPerHour

\* upload_image after the read: the submission record and its review task
UploadFinish(v, t) ==
    /\ uploading[v] # NoUpload
    /\ task_counter < MaxTasks
    /\ submissions_db' = Append(submissions_db,
          [id |-> submission_counter, vendor |-> v,
           filename |-> uploading[v],
           image_url |-> uploading[v],
           status |-> "pending", feedback |-> "none", reviewed_by |-> "none"])
    /\ task_counter' = task_counter + 1
    /\ review_tasks' = Append(review_tasks,
          [id |-> task_counter + 1, submission_id |-> submission_counter,
           image_url |-> uploading[v],
           validation_score |-> 700, priority |-> 3,
           status |-> "pending", feedback |-> "none", reviewed_by |-> "none",
           created_at |-> t[1], due_by |-> due_by_of(t[2])])
    /\ now' = t[2]
    /\ uploading' = [uploading EXCEPT ![v] = NoUpload]
    /\ UNCHANGED <<submission_counter, inflight, response, nsubmits, page, skuVars,
                   scoreVars, slugVars, checkVars, queueVars>>

\* create_review_task_public
create_review_task_public(validation_score, t) ==
    /\ task_counter < MaxTasks
    /\ task_counter' = task_counter + 1
    /\ review_tasks' = Append(review_tasks,
          [id |-> task_counter + 1, submission_id |-> 0,
           image_url |-> NoUpload,
           validation_score |-> validation_score, priority |-> 3,
           status |-> "pending", feedback |-> "none", reviewed_by |-> "none",
           created_at |-> t[1], due_by |-> due_by_of(t[2])])
    /\ now' = t[2]
    /\ UNCHANGED <<submissions_db, submission_counter, uploading, inflight,
                   response, nsubmits, page, skuVars, scoreVars, slugVars, checkVars, queueVars>>

\* request.reviewer_notes: each reviewer writes notes of their own
NotesOf(r) ==
    [official1 |-> "notes of official1", official2 |-> "notes of official2"][r]

\* a submit-decision request reaches the server (body parsed, require_official
\* awaited); seen is the status its task has at that moment
SubmitArrives(r, task_id, decision) ==
    /\ inflight[r] = NoRequest
    /\ nsubmits < MaxSubmits
    /\ nsubmits' = nsubmits + 1
    /\ inflight' = [inflight EXCEPT ![r] =
          [task_id |-> task_id, decision |-> decision,
           reviewer_notes |-> NotesOf(r), seen |-> StatusOfTask(task_id)]]
    /\ UNCHANGED <<review_tasks, task_counter, submissions_db,
                   submission_counter, uploading, response, now, page, skuVars,
                   scoreVars, slugVars, checkVars, queueVars>>

\* (mutant) the reviewer and the feedback are written, the status is not
Decided_status_kept(task, req, r) ==
    [task EXCEPT !.reviewed_by = r,
                 !.feedback = req.reviewer_notes]

\* the task with the decision of the request written over it
Decided(task, req, r) ==
    [task EXCEPT !.status = req.decision,
                 !.reviewed_by = r,
                 !.feedback = req.reviewer_notes]

\* the body of submit_review_decision
submit_review_decision(r) ==
    /\ inflight[r] # NoRequest
    /\ LET req == inflight[r]
           i == FirstWithId(review_tasks, req.task_id)
       IN  IF i = 0
           THEN /\ response' = [response EXCEPT ![r] =
                      [task_id |-> req.task_id, decision |-> req.decision,
                       seen |-> req.seen, result |-> "not_found"]]
                /\ UNCHANGED <<review_tasks, submissions_db>>
           ELSE LET k == FirstWithId(submissions_db, review_tasks[i].submission_id)
                IN  /\ review_tasks' = [review_tasks EXCEPT ![i] =
                           Decided(@, req, r)]
                    /\ submissions_db' =
                          IF k = 0 THEN submissions_db
                          ELSE [submissions_db EXCEPT ![k] = Decided(@, req, r)]
                    /\ response' = [response EXCEPT ![r] =
                          [task_id |-> req.task_id, decision |-> req.decision,
                           seen |-> req.seen, result |-> "recorded"]]
    /\ inflight' = [inflight EXCEPT ![r] = NoRequest]
    /\ UNCHANGED <<task_counter, submission_counter, uploading, nsubmits, now,
                   page, skuVars, scoreVars, slugVars, checkVars, queueVars>>

InitReview ==
    /\ review_tasks = <<>>
    /\ task_counter = 0
    /\ submissions_db = <<>>
    /\ submission_counter = 0
    /\ uploading = [v \in Vendors |-> NoUpload]
    /\ inflight = [r \in Reviewers |-> NoRequest]
    /\ response = [r \in Reviewers |-> NoRequest]
    /\ nsubmits = 0
    /\ now = 0
    /\ page = NoPage

---------------------------------------------------------------------------
(* ImageValidator: scoring and decision *)

\* Scores are in 1/1000, weights in 1/100, so overall scores are in 1/100000.
\* On the grid of the model the weighted sums are exact in both IEEE doubles
\* and integers, a sum that equals a threshold included.
ScoreGrid == {(i * 1000) \div ScoreSteps : i \in 0..ScoreSteps}

CheckNames == {"background_white", "blur", "object_coverage",
               "object_detection", "perceptual_similarity"}

\* ImageValidator.__init__: the weights used when none are given
DefaultWeights ==
    [background_white |-> 25, blur |-> 15, object_coverage |-> 25,
     object_detection |-> 20, perceptual_similarity |-> 15]

\* config.VALIDATION_WEIGHTS
VALIDATION_WEIGHTS ==
    [background_white |-> 20, blur |-> 30, object_coverage |-> 20,
     object_detection |-> 15, perceptual_similarity |-> 15]

\* accept/review thresholds a validator is constructed with: the defaults, the
\* strict pair of the tests, and a pair given the wrong way round
Thresholds ==
    { [accept |-> 850, review |-> 700],
      [accept |-> 900, review |-> 750],
      [accept |-> 700, review |-> 850] }

Validators ==
    { [weights |-> w,
       accept_score_threshold |-> t.accept,
       review_score_threshold |-> t.review] :
         w \in {DefaultWeights, VALIDATION_WEIGHTS}, t \in Thresholds }

\* an image file as the checks see it: what each check returns for it
MissingImage ==
    [exists |-> FALSE, raises |-> FALSE, background_white |-> 0, blur |-> 0,
     object_coverage |-> 0, reference |-> FALSE, similarity |-> 0]

\* a call in which an exception escapes inside the try block (an image_path
\* that is not a path, a weights dict without one of the keys)
RaisingImage == [MissingImage EXCEPT !.exists = TRUE, !.raises = TRUE]

Images ==
    {MissingImage, RaisingImage} \cup
    { [exists |-> TRUE, raises |-> FALSE, background_white |-> b, blur |-> l,
       object_coverage |-> c, reference |-> r[1], similarity |-> r[2]] :
         b \in ScoreGrid, l \in ScoreGrid, c \in ScoreGrid,
         r \in {<<FALSE, 0>>} \cup ({TRUE} \X ScoreGrid) }

\* _check_object_detection: the placeholder score
check_object_detection(image) == 700

\* "Run individual checks": the five scores of validate_image
CheckScores(image) ==
    [background_white |-> image.background_white,
     blur |-> image.blur,
     object_coverage |-> image.object_coverage,
     object_detection |-> check_object_detection(image),
     perceptual_similarity |->
        IF image.reference THEN image.similarity ELSE 1000]

\* the weighted sum with one term subtracted
overall_score_sign_error(weights, scores) ==
    weights.background_white * scores.background_white
      - weights.blur * scores.blur
      + weights.object_coverage * scores.object_coverage
      + weights.object_detection * scores.object_detection
      + weights.perceptual_similarity * scores.perceptual_similarity

\* (mutant) the weighted sum with the detection score left unweighted
overall_score_detection_unweighted(weights, scores) ==
    weights.background_white * scores.background_white
      + weights.blur * scores.blur
      + weights.object_coverage * scores.object_coverage
      + 100 * scores.object_detection
      + weights.perceptual_similarity * scores.perceptual_similarity

\* "Compute weighted overall score"
overall_score(weights, scores) ==
    weights.background_white * scores.background_white
      + weights.blur * scores.blur
      + weights.object_coverage * scores.object_coverage
      + weights.object_detection * scores.object_detection
      + weights.perceptual_similarity * scores.perceptual_similarity

\* the decision with both comparisons strict
status_of_strict(v, score) ==
    IF score > v.accept_score_threshold * 100 THEN "auto_accepted"
    ELSE IF score > v.review_score_threshold * 100 THEN "needs_review"
    ELSE "auto_rejected"

\* "Determine status"
status_of(v, score) ==
    IF score >= v.accept_score_threshold * 100 THEN "auto_accepted"
    ELSE IF score >= v.review_score_threshold * 100 THEN "needs_review"
    ELSE "auto_rejected"

NoChecks == [image |-> "none"]
NoMetrics == [status |-> "none"]

\* the call got as far as the five check scores
Scored(ch) == "image" \notin DOMAIN ch

\* the ValidationMetrics of a file that is not there, or of an exception
ErrorMetrics ==
    [background_white_score |-> 0, blur_score |-> 0, object_coverage |-> 0,
     perceptual_similarity |-> 0, overall_score |-> 0, status |-> "error"]

\* (mutant) the file is not looked for: a missing file is scored like any other
ValidationMetrics_unchecked_file(v, image) ==
    IF image.raises THEN ErrorMetrics
    ELSE LET scores == CheckScores(image)
             overall == overall_score(v.weights, scores)
         IN  [background_white_score |-> scores.background_white,
              blur_score |-> scores.blur,
              object_coverage |-> scores.object_coverage,
              perceptual_similarity |-> scores.perceptual_similarity,
              overall_score |-> overall,
              status |-> status_of(v, overall)]

\* the ValidationMetrics validate_image returns
ValidationMetrics(v, image) ==
    IF ~image.exists \/ image.raises THEN ErrorMetrics
    ELSE LET scores == CheckScores(image)
             overall == overall_score(v.weights, scores)
         IN  [background_white_score |-> scores.background_white,
              blur_score |-> scores.blur,
              object_coverage |-> scores.object_coverage,
              perceptual_similarity |-> scores.perceptual_similarity,
              overall_score |-> overall,
              status |-> status_of(v, overall)]

\* the checks in which two score vectors differ
Differing(a, b) == {k \in CheckNames : a[k] # b[k]}

\* the check fields of an image record
ImageChecks == {"background_white", "blur", "object_coverage", "similarity"}

\* an image, compared with a reference, on which the checks return the scores
ImageWith(scores) ==
    [exists |-> TRUE, raises |-> FALSE,
     background_white |-> scores.background_white,
     blur |-> scores.blur, object_coverage |-> scores.object_coverage,
     reference |-> TRUE, similarity |-> scores.perceptual_similarity]

\* the scores the last validation of a file that was there has computed
LastScores == IF Scored(checks) THEN checks ELSE prev.checks

\* the images validated next: any image at first, then a missing file or the
\* last image with the result of one check changed
NextImages ==
    IF ~Scored(LastScores) THEN Images
    ELSE {MissingImage, RaisingImage} \cup
         ({[ImageWith(LastScores) EXCEPT ![f] = s] :
              f \in ImageChecks, s \in ScoreGrid} \ {ImageWith(LastScores)})

\* validate_image; prev keeps the scores and the result of the call before
validate_image(image) ==
    /\ prev' = [checks |-> checks, metrics |-> metrics]
    /\ checks' = IF ~image.exists THEN [image |-> "missing"]
                 ELSE IF image.raises THEN [image |-> "raised"]
                 ELSE CheckScores(image)
    /\ metrics' = ValidationMetrics(validator, image)
    /\ UNCHANGED <<validator, skuVars, reviewVars, slugVars, checkVars, queueVars>>

\* a validator with the default arguments, no image validated yet
InitScoreIdle ==
    /\ validator = [weights |-> DefaultWeights,
                    accept_score_threshold |-> 850,
                    review_score_threshold |-> 700]
    /\ checks = NoChecks
    /\ metrics = NoMetrics
    /\ prev = [checks |-> NoChecks, metrics |-> NoMetrics]

InitScore ==
    /\ validator \in Validators
    /\ checks = NoChecks
    /\ metrics = NoMetrics
    /\ prev = [checks |-> NoChecks, metrics |-> NoMetrics]

---------------------------------------------------------------------------
(* ImageValidator: construction and the five checks on an image file *)

\* the weights argument left at None
NoWeights == [given |-> FALSE]

\* a weights argument that does not sum to 1.0: 0.5 for every check
HeavyWeights ==
    [background_white |-> 50, blur |-> 50, object_coverage |-> 50,
     object_detection |-> 50, perceptual_similarity |-> 50]

WeightsGiven == {NoWeights, VALIDATION_WEIGHTS, HeavyWeights}

\* sum(self.weights.values()), in 1/100
WeightSum(weights) ==
    weights.background_white + weights.blur + weights.object_coverage
      + weights.object_detection + weights.perceptual_similarity

Abs(x) == IF x < 0 THEN -x ELSE x

\* (mutant) weights that do not sum to 1.0 are replaced by the defaults
weights_of_sum_enforced(weights) ==
    IF weights = NoWeights \/ WeightSum(weights) # 100 THEN DefaultWeights
    ELSE weights

\* "self.weights = weights or {...}"
weights_of(weights) ==
    IF weights = NoWeights THEN DefaultWeights ELSE weights

\* "Validate weights sum to 1.0": the warning, if one is logged
weight_warnings(weights) ==
    IF Abs(WeightSum(weights_of(weights)) * 10 - 1000) > 1
    THEN {"Weights do not sum to 1.0"}
    ELSE {}

\* ImageValidator(weights=..., accept_score_threshold=..., ...)
ImageValidator(weights, accept, review) ==
    [weights |-> weights_of(weights),
     accept_score_threshold |-> accept,
     review_score_threshold |-> review]

\* blur_threshold (Laplacian variance) and the coverage band (1/1000) a
\* validator is constructed with: the defaults, the values the servers pass
\* from config.py, and a band of the caller's own
Limits ==
    { [blur_threshold |-> 100, object_coverage_min |-> 300,
       object_coverage_max |-> 900],
      [blur_threshold |-> 1000, object_coverage_min |-> 300,
       object_coverage_max |-> 900],
      [blur_threshold |-> 100, object_coverage_min |-> 200,
       object_coverage_max |-> 800] }

\* which of the optional imports succeeded
Libraries ==
    [PIL_AVAILABLE : BOOLEAN, CV2_AVAILABLE : BOOLEAN,
     IMAGEHASH_AVAILABLE : BOOLEAN]

AllLibraries ==
    [PIL_AVAILABLE |-> TRUE, CV2_AVAILABLE |-> TRUE,
     IMAGEHASH_AVAILABLE |-> TRUE]

\* coverage of the largest contour, in 1/1000 of the image area; on these
\* values the scores of both bands are whole numbers of 1/1000
Coverages == {0, 150, 180, 300, 600, 800, 900, 950, 990}

\* Laplacian variances
Variances == {0, 50, 400}

\* fraction of border pixels that are white, in 1/1000
WhiteFractions == {0, 1000}

NoFile == [exists |-> FALSE]

\* an image file: whether Image.open and cv2.imread can read it, and what the
\* pixel measurements give when they can
Files ==
    {NoFile} \cup
    { [exists |-> TRUE, pil_opens |-> p[1], pct_white |-> p[2],
       cv2_reads |-> c[1], variance |-> c[2], contours |-> c[3],
       coverage |-> c[4]] :
         p \in {<<FALSE, 0>>} \cup ({TRUE} \X WhiteFractions),
         c \in {<<FALSE, 0, FALSE, 0>>}
                 \cup ({TRUE} \X Variances \X {FALSE} \X {0})
                 \cup ({TRUE} \X Variances \X {TRUE} \X Coverages) }

\* reference_image_path: None, the path of no file, of a file Image.open
\* cannot read, or of an image whose hash differs in `diff` bits
NoReference == [given |-> FALSE]

References ==
    { NoReference,
      [given |-> TRUE, exists |-> FALSE, pil_opens |-> FALSE, diff |-> 0],
      [given |-> TRUE, exists |-> TRUE, pil_opens |-> FALSE, diff |-> 0] }
    \cup { [given |-> TRUE, exists |-> TRUE, pil_opens |-> TRUE, diff |-> d] :
             d \in {0, 16, HashBits} }

Max(a, b) == IF a > b THEN a ELSE b

\* (mutant) the background check without its except clause: 0 for a file
\* that cannot be opened
check_background_white_unguarded(lib, f) ==
    IF ~lib.PIL_AVAILABLE THEN 500
    ELSE IF ~f.pil_opens THEN 0
    ELSE f.pct_white

\* _check_background_white
check_background_white(lib, f) ==
    IF ~lib.PIL_AVAILABLE THEN 500
    ELSE IF ~f.pil_opens THEN 500
    ELSE f.pct_white

\* _check_blur
check_blur(lib, lim, f) ==
    IF ~lib.CV2_AVAILABLE THEN 500
    ELSE IF ~f.cv2_reads THEN 500
    ELSE Min(1000, (f.variance * 1000) \div lim.blur_threshold)

\* _check_object_coverage: the score of the pair it returns
check_object_coverage(lib, lim, f) ==
    IF ~lib.CV2_AVAILABLE THEN 500
    ELSE IF ~f.cv2_reads THEN 500
    ELSE IF ~f.contours THEN 0
    ELSE IF f.coverage < lim.object_coverage_min
         THEN (f.coverage * 500) \div lim.object_coverage_min
    ELSE IF f.coverage > lim.object_coverage_max
         THEN Max(0, 1000 - ((f.coverage - lim.object_coverage_max) * 500)
                               \div (1000 - lim.object_coverage_max))
    ELSE 1000

\* _check_perceptual_similarity; Image is None without Pillow, so that
\* Image.open raises inside the try block
check_perceptual_similarity(lib, f, ref) ==
    IF ~lib.IMAGEHASH_AVAILABLE THEN 700
    ELSE IF ~ref.exists THEN 700
    ELSE IF ~lib.PIL_AVAILABLE \/ ~f.pil_opens \/ ~ref.pil_opens THEN 700
    ELSE Max(0, Min(1000, 1000 - (ref.diff * 1000) \div HashBits))

\* what the checks of validate_image return for the file and the reference
Seen(lib, lim, f, ref) ==
    IF ~f.exists THEN MissingImage
    ELSE [exists |-> TRUE, raises |-> FALSE,
          background_white |-> check_background_white(lib, f),
          blur |-> check_blur(lib, lim, f),
          object_coverage |-> check_object_coverage(lib, lim, f),
          reference |-> ref.given,
          similarity |-> IF ref.given
                         THEN check_perceptual_similarity(lib, f, ref)
                         ELSE 0]

\* validate_image(image_path, reference_image_path) on the file
ValidateFile(ref) ==
    /\ nvalidated < MaxValidations
    /\ nvalidated' = nvalidated + 1
    /\ reference' = ref
    /\ prev' = [checks |-> checks, metrics |-> metrics]
    /\ checks' = IF ~file.exists THEN [image |-> "missing"]
                 ELSE CheckScores(Seen(libs, limits, file, ref))
    /\ metrics' = ValidationMetrics(validator, Seen(libs, limits, file, ref))
    /\ UNCHANGED <<validator, libs, limits, file, weights_arg, logged, skuVars,
                   reviewVars, slugVars, queueVars>>

\* no file under validation; every library imported, default limits
InitChecksIdle ==
    /\ libs = AllLibraries
    /\ limits = [blur_threshold |-> 100, object_coverage_min |-> 300,
                 object_coverage_max |-> 900]
    /\ file = NoFile
    /\ reference = NoReference
    /\ weights_arg = NoWeights
    /\ logged = {}
    /\ nvalidated = 0

\* a validator constructed with some weights and limits, and a file to validate
InitChecks ==
    /\ libs \in Libraries
    /\ limits \in Limits
    /\ file \in Files
    /\ reference = NoReference
    /\ weights_arg \in WeightsGiven
    /\ validator = ImageValidator(weights_arg, 850, 700)
    /\ logged = weight_warnings(weights_arg)
    /\ checks = NoChecks
    /\ metrics = NoMetrics
    /\ prev = [checks |-> NoChecks, metrics |-> NoMetrics]
    /\ nvalidated = 0

---------------------------------------------------------------------------
(* ReviewQueue: the review-task service behind backend/main.py *)

\* an Optional argument: left at None, or given
None == [given |-> FALSE]
Some(x) == [given |-> TRUE, value |-> x]

\* Python's "x or default" for an Optional[int]: None and 0 are both falsy
Or(x, default) == IF x.given /\ x.value # 0 THEN x.value ELSE default

\* (mutant) a score of exactly 0.70 is still in the band of priority 3
compute_priority_band_3_closed(validation_score) ==
    IF validation_score < 400 THEN 1
    ELSE IF validation_score < 550 THEN 2
    ELSE IF validation_score <= 700 THEN 3
    ELSE IF validation_score < 800 THEN 4
    ELSE 5

\* _compute_priority, validation_score in 1/1000
compute_priority(validation_score) ==
    IF validation_score < 400 THEN 1
    ELSE IF validation_score < 550 THEN 2
    ELSE IF validation_score < 700 THEN 3
    ELSE IF validation_score < 800 THEN 4
    ELSE 5

\* "Auto-compute priority if not specified"
priority_of(q, validation_score, priority) ==
    IF ~priority.given /\ q.enable_priority_assignment
    THEN compute_priority(validation_score)
    ELSE Or(priority, 3)

\* validation scores of the tasks created, in 1/1000: one inside every band
\* of _compute_priority and every boundary between two bands
QueueScores == {350, 400, 550, 700, 720, 800}

PrioritiesGiven == {None, Some(0), Some(2), Some(9)}
SlaHoursGiven == {None, Some(24)}
TaskIds == 0..MaxTaskId
ReviewDecision == {"accepted", "rejected", "requires_edit",
                   "needs_regeneration"}
NoAnswer == [op |-> "none"]

\* ReviewQueue.create_review_task: the priority and due date it computes and
\* logs, and the id it returns (hash(task_uuid) % 1000000); nothing is stored
ReviewQueue_create_review_task(validation_score, priority, sla_hours, id, t) ==
    /\ now' = t
    /\ answer' =
          [op |-> "create_review_task",
           validation_score |-> validation_score,
           priority_arg |-> priority,
           priority |-> priority_of(queue_opts, validation_score, priority),
           called_at |-> t,
           due_by |-> t + Or(sla_hours, queue_opts.default_sla_hours)
                            * MsPerHour,
           task_id |-> id]
    /\ handed' = handed \cup {id}
    /\ UNCHANGED <<queue_opts, assigned, decided, review_tasks, task_counter,
                   submissions_db, submission_counter, uploading, inflight,
                   response, nsubmits, page, skuVars, scoreVars, slugVars,
                   checkVars>>

\* ReviewQueue.get_review_task: the placeholder finds no task
ReviewQueue_get_review_task(task_id) ==
    /\ answer' = [op |-> "get_review_task", task_id |-> task_id,
                  task |-> None]
    /\ UNCHANGED <<queue_opts, handed, assigned, decided, skuVars,
                   reviewVars, scoreVars, slugVars, checkVars>>

\* ReviewQueue.assign_task: the placeholder returns True
ReviewQueue_assign_task(task_id, reviewer_id) ==
    /\ answer' = [op |-> "assign_task", task_id |-> task_id,
                  reviewer_id |-> reviewer_id, result |-> TRUE]
    /\ assigned' = assigned \cup {task_id}
    /\ UNCHANGED <<queue_opts, handed, decided, skuVars, reviewVars,
                   scoreVars, slugVars, checkVars>>

\* ReviewQueue.submit_review_decision: the placeholder returns True
ReviewQueue_submit_review_decision(review_task_id, decision, reviewer_id) ==
    /\ answer' = [op |-> "submit_review_decision",
                  task_id |-> review_task_id, decision |-> decision,
                  reviewer_id |-> reviewer_id, result |-> TRUE]
    /\ decided' = IF IsTerminal(decision)
                  THEN decided \cup {review_task_id} ELSE decided
    /\ UNCHANGED <<queue_opts, handed, assigned, skuVars, reviewVars,
                   scoreVars, slugVars, checkVars>>

\* ReviewQueue(db_connection=None), nothing called yet
InitQueueIdle ==
    /\ queue_opts = [default_sla_hours |-> DefaultSlaHours,
                     enable_priority_assignment |-> TRUE]
    /\ handed = {}
    /\ assigned = {}
    /\ decided = {}
    /\ answer = NoAnswer

\* a ReviewQueue with or without automatic priorities, nothing called yet
InitQueue ==
    /\ queue_opts \in [default_sla_hours : {DefaultSlaHours},
                       enable_priority_assignment : BOOLEAN]
    /\ handed = {}
    /\ assigned = {}
    /\ decided = {}
    /\ answer = NoAnswer

---------------------------------------------------------------------------
(* The documented flow: a borderline image goes to the review queue *)

\* images around the bands of the decision and of _compute_priority: with the
\* default weights their overall scores run from 0.64 to 0.88 and include
\* 0.70, 0.80 and 0.85
TriageImages ==
    {MissingImage} \cup
    {image \in Images :
        /\ image.exists /\ ~image.raises /\ image.reference
        /\ image.background_white >= 800
        /\ (image.object_coverage \in 600..699 \/ image.object_coverage = 1000)
        /\ image.blur \in 600..699
        /\ (image.similarity \in 400..499 \/ image.similarity >= 800)}

\* "Image fails automated validation -> create_review_task()": a task for the
\* image just validated, its status NEEDS_REVIEW, its validation_score the
\* overall score.  The queue's scores are in 1/1000; the bands of
\* _compute_priority are whole numbers of 1/1000, so cutting the overall
\* score of 1/100000 to 1/1000 changes no comparison.
review_task_for_outcome(priority, id, t) ==
    /\ metrics.status = "needs_review"
    /\ ReviewQueue_create_review_task(metrics.overall_score \div 100,
                                      priority, None, id, t)

---------------------------------------------------------------------------
(* run_server.py: the list of pending review tasks *)

\* the limit and priority query parameters of a get-pending request: the
\* default limit of 50, limits around the number of tasks, no priority
\* filter, and filters for priorities that tasks have and do not have
PageLimits == {-1, 0, 1, 50}
PriorityFilters == {None, Some(0), Some(1), Some(3)}

\* "if priority:" is false for None and for 0
pending_tasks(tasks, priority) ==
    LET pending == SelectSeq(tasks, LAMBDA t : t.status = "pending")
    IN  IF priority.given /\ priority.value # 0
        THEN SelectSeq(pending, LAMBDA t : t.priority = priority.value)
        ELSE pending

\* get_pending_review_tasks: the response is pending[:limit]
get_pending_review_tasks(limit, priority) ==
    /\ page' = [op |-> "get_pending_review_tasks",
                limit |-> limit, priority |-> priority,
                task_count |->
                   Len(PySlicePrefix(pending_tasks(review_tasks, priority),
                                     limit)),
                tasks |->
                   PySlicePrefix(pending_tasks(review_tasks, priority), limit)]
    /\ UNCHANGED <<review_tasks, task_counter, submissions_db,
                   submission_counter, uploading, inflight, response,
                   nsubmits, now, skuVars, scoreVars, slugVars, checkVars,
                   queueVars>>

Init ==
    /\ InitSku /\ InitReview /\ InitScoreIdle /\ InitSlugIdle
    /\ InitChecksIdle /\ InitQueueIdle

Next ==
    \/ \E p \in Procs, req \in Requests : generate_sku(p, req)
    \/ \E p \in Procs : InsertBase(p)
    \/ \E p \in Procs : RetryInsert(p)
    \/ \E p \in Procs : RetrySkip(p)

Spec == Init /\ [][Next]_vars

\* the generator idle, as constructed
InitSkuIdle ==
    /\ opts = [max_sku_length |-> MaxSkuLength,
               hash_suffix_length |-> HashSuffixLength]
    /\ ncalls = 0
    /\ db = "mock"
    /\ genOf = [p \in Procs |-> 1]
    /\ store = [g \in Gens |-> {}]
    /\ call = [p \in Procs |-> Idle]
    /\ issued = [g \in Gens |-> EmptyBag]
    /\ db_errors = 0

NextReview ==
    \/ \E v \in Vendors, ct \in ContentTypes : UploadStart(v, ct)
    \/ \E v \in Vendors, ct \in ContentTypes : UploadRefused(v, ct)
    \/ \E v \in Vendors, t \in ClockReadings : UploadFinish(v, t)
    \/ \E score \in ScoresGiven, t \in ClockReadings :
          create_review_task_public(score, t)
    \/ \E r \in Reviewers, id \in 1..MaxTasks, d \in Decisions :
          SubmitArrives(r, id, d)
    \/ \E r \in Reviewers : submit_review_decision(r)

\* the server as started, no request handled yet
InitServer ==
    /\ InitSkuIdle /\ InitReview /\ InitScoreIdle /\ InitSlugIdle
    /\ InitChecksIdle /\ InitQueueIdle

SpecReview == InitServer /\ [][NextReview]_vars

\* tasks created through the API, one official deciding and listing them
NextPending ==
    \/ \E score \in ScoresGiven, t \in ClockReadings :
          create_review_task_public(score, t)
    \/ \E id \in 1..MaxTasks, d \in TerminalStatuses :
          SubmitArrives("official1", id, d)
    \/ submit_review_decision("official1")
    \/ \E limit \in PageLimits, priority \in PriorityFilters :
          get_pending_review_tasks(limit, priority)

SpecPending == InitServer /\ [][NextPending]_vars

NextTriage ==
    \/ \E image \in TriageImages : validate_image(image)
    \/ \E priority \in {None, Some(2)}, id \in TaskIds, t \in now..MaxClock :
          review_task_for_outcome(priority, id, t)

\* the default validator and a ReviewQueue, nothing validated yet
InitTriage ==
    /\ InitSkuIdle /\ InitReview /\ InitScoreIdle /\ InitSlugIdle
    /\ InitChecksIdle /\ InitQueue

SpecTriage == InitTriage /\ [][NextTriage]_vars

NextSlug ==
    \/ Slugify
    \/ Reslugify

\* _slugify on its own, no generator involved
InitSlugify ==
    /\ InitSkuIdle /\ InitReview /\ InitScoreIdle /\ InitSlug
    /\ InitChecksIdle /\ InitQueueIdle

SpecSlug == InitSlugify /\ [][NextSlug]_vars

NextScore ==
    \E image \in NextImages : validate_image(image)

\* a validator as constructed, no image validated yet
InitValidator ==
    /\ InitSkuIdle /\ InitReview /\ InitScore /\ InitSlugIdle
    /\ InitChecksIdle /\ InitQueueIdle

SpecScore == InitValidator /\ [][NextScore]_vars

NextChecks ==
    \E ref \in References : ValidateFile(ref)

\* a validator as constructed and a file, not yet validated
InitFile ==
    InitSkuIdle /\ InitReview /\ InitChecks /\ InitSlugIdle /\ InitQueueIdle

SpecChecks == InitFile /\ [][NextChecks]_vars

NextQueue ==
    \/ \E score \in QueueScores, priority \in PrioritiesGiven,
          sla_hours \in SlaHoursGiven, id \in TaskIds, t \in now..MaxClock :
          ReviewQueue_create_review_task(score, priority, sla_hours, id, t)
    \/ \E id \in TaskIds : ReviewQueue_get_review_task(id)
    \/ \E id \in TaskIds, r \in Reviewers : ReviewQueue_assign_task(id, r)
    \/ \E id \in TaskIds, d \in ReviewDecision, r \in Reviewers :
          ReviewQueue_submit_review_decision(id, d, r)

\* the service as main.py constructs it, or with automatic priorities off
InitService ==
    /\ InitSkuIdle /\ InitReview /\ InitScoreIdle /\ InitSlugIdle
    /\ InitChecksIdle /\ InitQueue

SpecQueue == InitService /\ [][NextQueue]_vars

---------------------------------------------------------------------------
(* Claims about generate_sku *)

Done(p) == call[p].pc = "done"
LastOf(log) == log[Len(log)]
NoDbError(log) == \A i \in DOMAIN log : log[i].outcome # "db_error"

\* C1: after any sequence of generate_sku calls on one store, no two calls
\* that return a non-empty identifier return the same identifier.
C1_ReturnedIdentifiersUnique ==
    \A g \in Gens : \A id \in BagToSet(issued[g]) : CopiesIn(id, issued[g]) <= 1

\* C2: against a store whose insert-if-absent is atomic, two calls that
\* compute the same base never return the same identifier, at most one of
\* them returns the base with INSERTED, and whatever a call returns is the
\* candidate its own last insert attempt got accepted.
C2_AtomicInsertSeparatesConcurrentCalls ==
    db = "unique" =>
      /\ \A p \in Procs :
           (Done(p) /\ call[p].sku # <<>>) =>
              /\ call[p].log # <<>>
              /\ LastOf(call[p].log) =
                    [sku |-> call[p].sku, outcome |-> "inserted"]
      /\ \A p, q \in Procs :
           (/\ p # q
            /\ genOf[p] = genOf[q]
            /\ Done(p) /\ Done(q)
            /\ call[p].base_candidate = call[q].base_candidate
            /\ call[p].sku # <<>>) =>
              /\ call[p].sku # call[q].sku
              /\ ~(call[p].status = "inserted" /\ call[q].status = "inserted")

\* two calls with the same base that both started before either insert: one
\* got the base, the other a suffixed candidate
C2_Witness ==
    /\ db = "unique"
    /\ genOf[1] = genOf[2]
    /\ Done(1) /\ Done(2)
    /\ call[1].base_candidate = call[2].base_candidate
    /\ call[1].store0 = call[2].store0
    /\ call[1].base_candidate \notin call[1].store0
    /\ call[1].status = "inserted"
    /\ call[2].status = "conflict_resolved"
    /\ call[2].log[1] = [sku |-> call[2].base_candidate, outcome |-> "conflict"]

\* a run nothing interferes with: no store failure, and no other process
\* writing to the same table
Undisturbed(p) ==
    /\ NoDbError(call[p].log)
    /\ db = "mock" \/ \A q \in Procs \ {p} : genOf[q] # genOf[p]

SameArguments(c, d) ==
    /\ c.raw_code = d.raw_code
    /\ c.vendor_id = d.vendor_id
    /\ c.vendor_short = d.vendor_short
    /\ c.max_retries = d.max_retries

NoAlphanumeric(raw_code) ==
    \A i \in DOMAIN raw_code :
       raw_code[i] \notin Range(LowerLetters) \cup Range(UpperLetters)
                          \cup Range(DigitChars)

RejectedArguments(c) ==
    c.raw_code = <<>> \/ c.vendor_short = <<>> \/ NoAlphanumeric(c.raw_code)

\* C8: with an empty raw_code, an empty vendor_short or a raw_code without
\* any alphanumeric character, generate_sku returns ('', ERROR) at once: the
\* call is never found waiting on an insert and has made no insert attempt.
C8_InvalidInputIsImmediateError ==
    \A p \in Procs :
       (call[p].pc # "idle" /\ RejectedArguments(call[p])) =>
          /\ call[p].pc = "done"
          /\ call[p].sku = <<>>
          /\ call[p].status = "error"
          /\ call[p].log = <<>>

\* each of the three kinds of invalid input has been rejected
C8_Witness ==
    /\ Done(1) /\ Done(2)
    /\ call[1].status = "error" /\ call[2].status = "error"
    /\ call[1].vendor_short = <<>> /\ call[1].raw_code # <<>>
    /\ call[2].raw_code # <<>> /\ NoAlphanumeric(call[2].raw_code)

\* the candidate the claim describes for an attempt
ClaimedSuffixLength(attempt) ==
    IF opts.hash_suffix_length + attempt < 10
    THEN opts.hash_suffix_length + attempt ELSE 10

ClaimedCandidate(c, attempt) ==
    c.base_candidate \o <<"-">>
      \o short_hash(c.raw_code \o <<":">> \o IntToStr(c.vendor_id) \o <<":">>
                      \o IntToStr(attempt),
                    ClaimedSuffixLength(attempt))

\* the attempts 0 .. max_retries-1 whose candidate fits max_sku_length, in order
FittingAttempts(c) ==
    SelectSeq([i \in 1..c.max_retries |-> i - 1],
              LAMBDA a : Len(ClaimedCandidate(c, a)) <= opts.max_sku_length)

\* C9: after a conflict on the base, the inserts that follow are the
\* candidates base-suffix of attempts 0, 1, ... in that order (those longer
\* than max_sku_length left out), each suffix of length
\* min(hash_suffix_length + attempt, 10); the first accepted one is returned
\* with CONFLICT_RESOLVED and nothing is attempted after it.
C9_RetriesInOrderFirstSuccessReturned ==
    \A p \in Procs :
       LET c == call[p]
           fit == FittingAttempts(c)
       IN  (c.log # <<>> /\ c.log[1].outcome = "conflict") =>
             /\ c.log[1].sku = c.base_candidate
             /\ Len(c.log) - 1 <= Len(fit)
             /\ \A i \in 2..Len(c.log) :
                  /\ c.log[i].sku = ClaimedCandidate(c, fit[i - 1])
                  /\ Len(c.log[i].sku) =
                        Len(c.base_candidate) + 1 + ClaimedSuffixLength(fit[i - 1])
             /\ \A i \in 1..(Len(c.log) - 1) : c.log[i].outcome # "inserted"
             /\ LastOf(c.log).outcome = "inserted" =>
                  /\ c.pc = "done"
                  /\ c.sku = LastOf(c.log).sku
                  /\ c.status = "conflict_resolved"
             /\ (c.pc = "done" /\ c.status = "conflict_resolved") =>
                  LastOf(c.log).outcome = "inserted"

\* base and attempt 0 were taken, attempt 1 was accepted, and its suffix is
\* capped at 10 characters
C9_Witness ==
    \E p \in Procs :
       /\ Done(p)
       /\ call[p].status = "conflict_resolved"
       /\ Len(call[p].log) = 3
       /\ call[p].log[1].outcome = "conflict"
       /\ call[p].log[2].outcome = "conflict"
       /\ call[p].log[3].outcome = "inserted"
       /\ opts.hash_suffix_length + 1 > 10
       /\ Len(call[p].sku) = Len(call[p].base_candidate) + 1 + 10

\* C10: a call makes at most 1 + max_retries insert attempts and at most
\* max_retries loop iterations, so it ends; a call still in the loop has an
\* attempt below max_retries to make; when the base and every attempted
\* candidate were rejected as conflicts the call has returned
\* ('', CONFLICT_UNRESOLVED) with the loop run out.
C10_BoundedAttemptsThenUnresolved ==
    \A p \in Procs :
       LET c == call[p]
       IN  /\ Len(c.log) <= 1 + c.max_retries
           /\ c.pc = "retry" => c.attempt < c.max_retries
           /\ c.pc = "insert_base" => c.log = <<>>
           /\ c.attempt <= c.max_retries
           /\ (/\ c.pc = "done"
               /\ c.log # <<>>
               /\ \A i \in DOMAIN c.log : c.log[i].outcome = "conflict") =>
                 /\ c.sku = <<>>
                 /\ c.status = "conflict_unresolved"
                 /\ c.attempt = c.max_retries

\* the base and all max_retries candidates were tried and were all taken
C10_Witness ==
    \E p \in Procs :
       /\ Done(p)
       /\ call[p].status = "conflict_unresolved"
       /\ Len(call[p].log) = 1 + call[p].max_retries
       /\ \A i \in DOMAIN call[p].log : call[p].log[i].outcome = "conflict"

\* C11: an insert that fails with a store error other than a conflict is the
\* last insert of its call: the call has ended right there, with a status
\* that is neither a success nor a conflict kind.
C11_StoreErrorAborts ==
    \A p \in Procs :
       \A i \in DOMAIN call[p].log :
          call[p].log[i].outcome = "db_error" =>
             /\ i = Len(call[p].log)
             /\ call[p].pc = "done"
             /\ call[p].status \notin {"inserted", "conflict_resolved",
                                       "conflict_unresolved"}

\* the call has computed its base candidate
Started(p) == call[p].pc \in {"insert_base", "retry", "done"}
                 /\ ~RejectedArguments(call[p])

\* '{vendor_short}-{slug}' before any truncation
UntruncatedBase(c) ==
    c.vendor_short \o <<"-">> \o slugify(c.raw_code, SlugMaxLen)

\* C12: every identifier a call tries to insert, and so every non-empty
\* identifier it returns, is at most max_sku_length characters long.
C12_IdentifiersWithinMaxLength ==
    \A p \in Procs :
       /\ Len(call[p].sku) <= opts.max_sku_length
       /\ \A i \in DOMAIN call[p].log :
             Len(call[p].log[i].sku) <= opts.max_sku_length

\* C13: a base '{vendor_short}-{slug}' of at most max_sku_length characters
\* is used as it is, and a longer one is cut to exactly max_sku_length.
C13_TruncationFitsExactly ==
    \A p \in Procs :
       Started(p) =>
          IF Len(UntruncatedBase(call[p])) <= opts.max_sku_length
          THEN call[p].base_candidate = UntruncatedBase(call[p])
          ELSE Len(call[p].base_candidate) = opts.max_sku_length

\* C14: no call tries to insert, or returns, an identifier that is its
\* vendor_short and the separator with nothing after it.
C14_NoEmptySlugIdentifier ==
    \A p \in Procs :
       LET bare == call[p].vendor_short \o <<"-">>
       IN  /\ call[p].pc # "idle" => call[p].sku # bare
           /\ \A i \in DOMAIN call[p].log : call[p].log[i].sku # bare

\* s begins with the sequence pre
StartsWith(s, pre) == Len(pre) <= Len(s) /\ SubSeq(s, 1, Len(pre)) = pre

\* two finished calls for the same raw code under different namespaces that
\* both returned an identifier
SameCodeOtherNamespace(p, q) ==
    /\ Done(p) /\ Done(q)
    /\ call[p].raw_code = call[q].raw_code
    /\ call[p].vendor_short # call[q].vendor_short
    /\ call[p].sku # <<>> /\ call[q].sku # <<>>

OnlyWriter(p) == \A q \in Procs \ {p} : genOf[q] # genOf[p]

\* C18: when a call has returned, the store holds what it held when the call
\* started plus, for INSERTED and CONFLICT_RESOLVED, the returned identifier,
\* which was not in it before; for ERROR and CONFLICT_UNRESOLVED it holds
\* just what it held.
C18_StoreGainsExactlyTheReturnedIdentifier ==
    \A p \in Procs :
       (Done(p) /\ OnlyWriter(p)) =>
          IF call[p].status \in {"inserted", "conflict_resolved"}
          THEN /\ call[p].sku \notin call[p].store0
               /\ store[genOf[p]] = call[p].store0 \cup {call[p].sku}
          ELSE store[genOf[p]] = call[p].store0

\* C19: the API's response carries the status generate_sku returned,
\* unchanged, so exhausted retries are reported as conflict_unresolved.
C19_ApiReportsOutcomeKind ==
    \A p \in Procs :
       Done(p) =>
          GenerateSKUResponse(call[p].sku, call[p].status).status
             = call[p].status

---------------------------------------------------------------------------
(* Claims about _slugify *)

\* C15: the slug is at most max_len characters long, and slugifying a slug
\* again with the same max_len gives the same slug.
C15_SlugifyIdempotentAndBounded ==
    /\ slugging.passes >= 1 => Len(slugging.slug) <= slugging.max_len
    /\ slugging.passes = 2 => slugging.slug = slugging.code

\* a code that is cleaned up and then cut short was slugified twice
C15_Witness ==
    /\ slugging.passes = 2
    /\ slugging.raw = <<"a", "-", "B">>
    /\ slugging.max_len = 1
    /\ slugging.slug = <<"A">>

AlnumUpper == Range(UpperLetters) \cup Range(DigitChars)

\* the code read left to right: each letter or digit kept, letters in upper
\* case, everything else dropped
RECURSIVE Cleaned(_)
Cleaned(code) ==
    IF code = <<>> THEN <<>>
    ELSE LET ch == Head(code)
             kept == IF ch \in Range(LowerLetters) \cup AlnumUpper
                     THEN <<UpperChar(ch)>> ELSE <<>>
         IN  kept \o Cleaned(Tail(code))

\* C16: the slug is the first max_len characters of the upper-cased code
\* with everything but A-Z and 0-9 removed; it holds only A-Z and 0-9, and
\* the empty code gives the empty slug.
C16_SlugifyIsCleanedPrefix ==
    slugging.passes = 1 =>
       LET whole == Cleaned(slugging.raw)
           n == Min(slugging.max_len, Len(whole))
       IN  /\ Len(slugging.slug) = n
           /\ \A i \in 1..n : slugging.slug[i] = whole[i]
           /\ \A i \in DOMAIN slugging.slug : slugging.slug[i] \in AlnumUpper
           /\ slugging.raw = <<>> => slugging.slug = <<>>

\* separators were dropped, the lower-case letter raised, and the result cut
C16_Witness ==
    /\ slugging.passes = 1
    /\ slugging.raw = <<"-", "a", "7">>
    /\ slugging.max_len = 1
    /\ slugging.slug = <<"A">>

---------------------------------------------------------------------------
(* Claims about the review handlers *)

\* C3: once a task is accepted, rejected or requires_edit, no step changes
\* the task, and no submit-decision on it is answered as recorded.
C3_TerminalDecisionIsFinal ==
    [][\A i \in DOMAIN review_tasks :
          IsTerminal(review_tasks[i].status) =>
             /\ review_tasks'[i] = review_tasks[i]
             /\ \A r \in Reviewers :
                  (/\ inflight[r] # NoRequest
                   /\ inflight'[r] = NoRequest
                   /\ inflight[r].task_id = review_tasks[i].id) =>
                      response'[r].result # "recorded"]_vars

\* C4: of two decisions by different reviewers that reached the server while
\* their task was still pending, exactly one is answered as recorded and the
\* task carries that one's decision and reviewer.
C4_ExactlyOneConcurrentDecisionWins ==
    \A r1, r2 \in Reviewers :
       (/\ r1 # r2
        /\ response[r1] # NoRequest /\ response[r2] # NoRequest
        /\ response[r1].task_id = response[r2].task_id
        /\ response[r1].seen = "pending" /\ response[r2].seen = "pending") =>
          \E w \in {r1, r2} :
             /\ response[w].result = "recorded"
             /\ \A l \in {r1, r2} \ {w} : response[l].result # "recorded"
             /\ StatusOfTask(response[w].task_id) = response[w].decision
             /\ review_tasks[FirstWithId(review_tasks,
                                         response[w].task_id)].reviewed_by = w

---------------------------------------------------------------------------
(* Claims about the image decision *)

Decided3 == {"auto_accepted", "needs_review", "auto_rejected"}

\* C5: with accept above review, the status returned with an overall score
\* is AUTO_ACCEPTED iff score >= accept, NEEDS_REVIEW iff review <= score <
\* accept, AUTO_REJECTED iff score < review; the score lies in [0,1].
C5_ThresholdsPartitionTheScores ==
    (/\ metrics # NoMetrics
     /\ metrics.status # "error"
     /\ validator.accept_score_threshold > validator.review_score_threshold) =>
       LET score == metrics.overall_score
           accept == validator.accept_score_threshold * 100
           review == validator.review_score_threshold * 100
       IN  /\ score >= 0 /\ score <= 100000
           /\ metrics.status \in Decided3
           /\ metrics.status = "auto_accepted" <=> score >= accept
           /\ metrics.status = "needs_review" <=>
                 (review <= score /\ score < accept)
           /\ metrics.status = "auto_rejected" <=> score < review

\* a score exactly at the accept threshold was accepted, right after a score
\* exactly at the review threshold was sent to review
C5_Witness ==
    /\ validator.accept_score_threshold > validator.review_score_threshold
    /\ metrics # NoMetrics /\ prev.metrics # NoMetrics
    /\ metrics.overall_score = validator.accept_score_threshold * 100
    /\ metrics.status = "auto_accepted"
    /\ prev.metrics.overall_score = validator.review_score_threshold * 100
    /\ prev.metrics.status = "needs_review"

Tier(status) ==
    CASE status = "auto_rejected" -> 0
      [] status = "needs_review" -> 1
      [] status = "auto_accepted" -> 2

\* the two last validations both decided, on score vectors that differ in
\* one check only
OneCheckApart ==
    /\ metrics # NoMetrics /\ prev.metrics # NoMetrics
    /\ metrics.status \in Decided3 /\ prev.metrics.status \in Decided3
    /\ Cardinality(Differing(prev.checks, checks)) = 1

\* C6: when two score vectors differ in one check only, the vector with the
\* higher score never gets the stricter status, whatever the configured
\* weights and thresholds.
C6_DecisionMonotonic ==
    OneCheckApart =>
       \A k \in Differing(prev.checks, checks) :
          /\ prev.checks[k] < checks[k] =>
                Tier(prev.metrics.status) <= Tier(metrics.status)
          /\ prev.checks[k] > checks[k] =>
                Tier(prev.metrics.status) >= Tier(metrics.status)

\* raising the blur score alone moved an image from rejected to review
C6_Witness ==
    /\ OneCheckApart
    /\ Differing(prev.checks, checks) = {"blur"}
    /\ prev.checks.blur < checks.blur
    /\ prev.metrics.status = "auto_rejected"
    /\ metrics.status = "needs_review"

\* C20: a call on a missing file, or one in which an exception escapes,
\* returns ERROR with all four reported scores and the overall score 0,
\* for every validator; every call returns a ValidationMetrics, and no other
\* call returns ERROR.
C20_ErrorIffPipelineFailure ==
    metrics # NoMetrics =>
       /\ metrics.status \in Decided3 \cup {"error"}
       /\ metrics.status = "error" <=> ~Scored(checks)
       /\ metrics.status = "error" =>
             /\ metrics.background_white_score = 0
             /\ metrics.blur_score = 0
             /\ metrics.object_coverage = 0
             /\ metrics.perceptual_similarity = 0
             /\ metrics.overall_score = 0

\* a file that was accepted is gone at the next call, under thresholds that
\* are not the defaults
C20_Witness ==
    /\ checks = [image |-> "missing"]
    /\ metrics = ErrorMetrics
    /\ prev.metrics # NoMetrics
    /\ prev.metrics.status = "auto_accepted"
    /\ validator.accept_score_threshold # 850

---------------------------------------------------------------------------
(* Claims about the five checks and the weights *)

\* validate_image has run on a file that is there
Checked == nvalidated > 0 /\ file.exists

\* the similarity check of the last call could not compare the two images
SimilarityFailed ==
    /\ reference.given
    /\ \/ ~libs.IMAGEHASH_AVAILABLE
       \/ ~libs.PIL_AVAILABLE
       \/ ~reference.exists
       \/ ~reference.pil_opens
       \/ ~file.pil_opens

\* C21: every check returns a score in [0,1]; a check whose library is
\* missing or that cannot read the image returns its neutral default (0.5 for
\* background, sharpness and coverage, 0.7 for object presence and
\* similarity), and the validation is scored, never ERROR.
C21_ChecksDegradeToNeutralScores ==
    Checked =>
      /\ Scored(checks)
      /\ \A k \in CheckNames : checks[k] \in 0..1000
      /\ metrics.status \in {"auto_accepted", "needs_review", "auto_rejected"}
      /\ (~libs.PIL_AVAILABLE \/ ~file.pil_opens)
            => checks.background_white = 500
      /\ (~libs.CV2_AVAILABLE \/ ~file.cv2_reads)
            => checks.blur = 500 /\ checks.object_coverage = 500
      /\ checks.object_detection = 700
      /\ SimilarityFailed => checks.perceptual_similarity = 700

\* a file no library can read, compared with a reference that is not there:
\* all five neutral scores, and a decision
C21_Witness ==
    /\ Checked
    /\ libs = AllLibraries
    /\ ~file.pil_opens /\ ~file.cv2_reads
    /\ reference.given /\ ~reference.exists
    /\ checks = [background_white |-> 500, blur |-> 500,
                 object_coverage |-> 500, object_detection |-> 700,
                 perceptual_similarity |-> 700]
    /\ metrics.status = "auto_rejected"

\* the overall score of the last call and of every score vector on the grid
\* lies in [0,1] (1/100000); the sum over the grid does not depend on the
\* file, and is taken once for each validator
OverallWithinUnitInterval ==
    /\ Scored(checks) => metrics.overall_score \in 0..100000
    /\ (nvalidated = 0 /\ ~file.exists) =>
          \A s \in [CheckNames -> ScoreGrid] :
             overall_score(validator.weights, s) \in 0..100000

C23_WeightSumIsWarnedNotEnforced ==
    /\ WeightSum(DefaultWeights) = 100
    /\ WeightSum(VALIDATION_WEIGHTS) = 100
    /\ validator.weights =
          (IF weights_arg = NoWeights THEN DefaultWeights ELSE weights_arg)
    /\ logged = (IF Abs(WeightSum(validator.weights) * 10 - 1000) > 1
                 THEN {"Weights do not sum to 1.0"} ELSE {})
    /\ validator.weights \in {DefaultWeights, VALIDATION_WEIGHTS}
          => logged = {}
    /\ (Checked /\ weights_arg # NoWeights) =>
          /\ metrics.status # "error"
          /\ metrics.overall_score = overall_score(weights_arg, checks)

\* a validator given weights that sum to 2.5 has logged the warning and
\* scored a file with them
C23_Witness ==
    /\ Checked
    /\ weights_arg = HeavyWeights
    /\ logged # {}
    /\ metrics.overall_score = overall_score(HeavyWeights, checks)
    /\ metrics.overall_score > 100000

\* the coverage check measured the largest contour of the file
CoverageMeasured ==
    Checked /\ libs.CV2_AVAILABLE /\ file.cv2_reads /\ file.contours

\* C24: the coverage score is 1.0 inside [min, max]; below min it is at most
\* 0.5 and falls linearly to 0 at coverage 0; above max it falls from 1.0 in
\* proportion to the excess and reaches 0 at coverage 1.0.
C24_CoverageScoreDecaysToZero ==
    CoverageMeasured =>
      LET c == file.coverage
          lo == limits.object_coverage_min
          hi == limits.object_coverage_max
          score == checks.object_coverage
      IN  /\ (lo <= c /\ c <= hi) => score = 1000
          /\ c < lo => score <= 500 /\ score * lo = c * 500
          /\ c > hi => score * (1000 - hi) = 1000 * (1000 - c)

\* C25: validate_image without a reference and with a reference that is not
\* there give the same similarity score for the same file.
C25_AbsentAndMissingReferenceScoreAlike ==
    [][ (/\ nvalidated = 1
         /\ file.exists
         /\ ~reference.given
         /\ reference'.given
         /\ ~reference'.exists)
           => checks'.perceptual_similarity = checks.perceptual_similarity
      ]_vars

---------------------------------------------------------------------------
(* Claims about review tasks *)

\* C26: a task created without a priority override has the priority of the
\* band its validation score falls in (<0.40: 1, <0.55: 2, <0.70: 3,
\* <0.80: 4, else 5), whichever handler created it.
C26_PriorityFollowsScoreBands ==
    \A i \in DOMAIN review_tasks :
       review_tasks[i].priority =
          compute_priority(review_tasks[i].validation_score)

\* C27: every review task has due_by = created_at + 48 hours, whatever the
\* clock does while the task is created, and keeps it.
C27_DueByIsCreatedAtPlusSla ==
    \A i \in DOMAIN review_tasks :
       review_tasks[i].due_by =
          review_tasks[i].created_at + DefaultSlaHours * MsPerHour

\* C28: the priority ReviewQueue.create_review_task gives a task is in 1..5,
\* whether computed from the score, defaulted, or given as an override.
C28_PriorityBetweenOneAndFive ==
    answer.op = "create_review_task" => answer.priority \in 1..5

C30_AssignMovesPendingAndRefusesTerminal ==
    /\ (answer.op = "assign_task" /\ answer.task_id \in decided)
          => answer.result = FALSE
    /\ (/\ answer.op = "get_review_task"
        /\ answer.task_id \in (handed \cap assigned) \ decided)
          => /\ answer.task # None
             /\ answer.task.value.status = "in_progress"

---------------------------------------------------------------------------
(* Claims about the review API as a whole *)

\* C31: every review task's status is one of pending, in_progress, accepted,
\* rejected, requires_edit, every recorded decision is one of accepted,
\* rejected, requires_edit, and a submit-decision request with any other
\* value is refused and changes no task and no submission.
C31_StatusesAndDecisionsAreEnumerated ==
    /\ \A i \in DOMAIN review_tasks : review_tasks[i].status \in ReviewStatus
    /\ \A i \in DOMAIN submissions_db :
          submissions_db[i].status \in ReviewStatus
    /\ \A r \in Reviewers :
          (response[r] # NoRequest /\ response[r].result = "recorded")
             => response[r].decision \in TerminalStatuses

\* C32: assign and submit-decision on a task id that no create has returned
\* fail (NotFound), they never succeed.
C32_UnknownTaskIdIsNotFound ==
    (/\ answer.op \in {"assign_task", "submit_review_decision"}
     /\ answer.task_id \notin handed)
        => answer.result = FALSE

\* C33: the id a create of a review task returns is positive and is not an
\* id that an earlier create has returned.
C33_CreateReturnsFreshPositiveId ==
    [][(answer' # answer /\ answer'.op = "create_review_task")
          => /\ answer'.task_id > 0
             /\ answer'.task_id \notin handed]_vars

\* the tasks are in order of ascending priority number, oldest first among
\* tasks of equal priority
ByPriorityThenAge(tasks) ==
    \A i, j \in DOMAIN tasks :
       i < j => \/ tasks[i].priority < tasks[j].priority
                \/ /\ tasks[i].priority = tasks[j].priority
                   /\ tasks[i].created_at <= tasks[j].created_at

\* C34: get-pending-review-tasks returns only pending tasks, only tasks of
\* the priority asked for when a priority filter is given, at most limit of
\* them (for a limit that is not negative), ordered by priority, then age.
C34_PendingListIsFilteredBoundedAndOrdered ==
    page.op = "get_pending_review_tasks" =>
       /\ \A i \in DOMAIN page.tasks : page.tasks[i].status = "pending"
       /\ page.priority.given =>
             \A i \in DOMAIN page.tasks :
                page.tasks[i].priority = page.priority.value
       /\ page.limit >= 0 => Len(page.tasks) <= page.limit
       /\ ByPriorityThenAge(page.tasks)

\* C35: however upload requests interleave, no two submissions have the same
\* id, a submission's id is the number in its own filename and image_url,
\* and the review task created by the same request (the one with the same
\* image_url) refers to that submission's id.
C35_ConcurrentUploadsKeepTheirOwnId ==
    /\ \A i, j \in DOMAIN submissions_db :
          i # j => submissions_db[i].id # submissions_db[j].id
    /\ \A i \in DOMAIN submissions_db :
          /\ submissions_db[i].id = submissions_db[i].filename.n
          /\ submissions_db[i].id = submissions_db[i].image_url.n
    /\ \A i \in DOMAIN submissions_db, k \in DOMAIN review_tasks :
          review_tasks[k].image_url = submissions_db[i].image_url
             => review_tasks[k].submission_id = submissions_db[i].id

\* C36: for every review task created by an upload, the submission whose id
\* is the task's submission_id has the task's status and the task's
\* feedback, before and after a decision.
C36_SubmissionMirrorsItsTask ==
    \A k \in DOMAIN review_tasks, i \in DOMAIN submissions_db :
       (/\ review_tasks[k].image_url # NoUpload
        /\ submissions_db[i].id = review_tasks[k].submission_id)
          => /\ submissions_db[i].status = review_tasks[k].status
             /\ submissions_db[i].feedback = review_tasks[k].feedback

---------------------------------------------------------------------------
(* Claims about what generate_sku returns *)

\* the base '{vendor_short}-{slug}' of a call's arguments, the slug cut as
\* generate_sku cuts it
BaseOfArguments(c) ==
    base_candidate_of(c.vendor_short, slugify(c.raw_code, SlugMaxLen))

\* the identifier is the base followed by '-' and the suffix of an attempt
BaseWithHashSuffix(c) ==
    /\ c.sku # <<>>
    /\ \E attempt \in 0..(c.max_retries - 1) :
       c.sku = BaseOfArguments(c) \o <<"-">>
                 \o short_hash(hash_input(c.raw_code, c.vendor_id, attempt),
                               ClaimedSuffixLength(attempt))

\* C37: in the pair generate_sku returns, the identifier is empty iff the
\* status is ERROR or CONFLICT_UNRESOLVED, the status is INSERTED iff the
\* identifier is the base with no suffix, and the status is
\* CONFLICT_RESOLVED iff the identifier is the base, '-' and a hash suffix.
C37_IdentifierAndStatusAgree ==
    \A p \in Procs :
       Done(p) =>
          LET c == call[p]
          IN  /\ c.status \in {"error", "conflict_unresolved", "inserted",
                                "conflict_resolved"}
              /\ (c.sku = <<>>) <=>
                    (c.status \in {"error", "conflict_unresolved"})
              /\ (c.status = "inserted") <=> (c.sku = BaseOfArguments(c))
              /\ (c.status = "conflict_resolved") <=> BaseWithHashSuffix(c)

\* one call has returned the base, the other the base with a suffix
C37_Witness ==
    \E p, q \in Procs :
       /\ Done(p) /\ Done(q)
       /\ call[p].status = "inserted"
       /\ call[p].sku = BaseOfArguments(call[p])
       /\ call[q].status = "conflict_resolved"
       /\ call[q].sku # BaseOfArguments(call[q])
       /\ BaseWithHashSuffix(call[q])

\* the first insert of the call, the one of the base, met a conflict
BaseConflict(c) == c.log # <<>> /\ c.log[1].outcome = "conflict"

\* the base of the call is a slug cut to fit max_sku_length
BaseTruncated(c) ==
    /\ c.base_candidate # <<>>
    /\ opts.max_sku_length - Len(UntruncatedBase(c)) - 1 < 0

\* the call made one insert, of the base, and returned ('', CONFLICT_UNRESOLVED)
OnlyTheBaseWasTried(p) ==
    LET c == call[p]
    IN  /\ Len(c.log) = 1
        /\ c.log[1].sku = c.base_candidate
        /\ Done(p) => (c.sku = <<>> /\ c.status = "conflict_unresolved")
        /\ c.pc \in {"retry", "done"}

\* suffix lengths do not decrease with the attempt number, and a collision
\* on a truncated base is never resolved
SuffixesGrowAndTruncatedBaseStaysUnresolved ==
    \A p \in Procs :
       LET c == call[p]
       IN  /\ c.base_candidate # <<>> =>
                \A a \in 0..(c.max_retries - 2) :
                   Len(suffix_of(c.raw_code, c.vendor_id, a))
                      <= Len(suffix_of(c.raw_code, c.vendor_id, a + 1))
           /\ (BaseConflict(c) /\ BaseTruncated(c)) => OnlyTheBaseWasTried(p)

\* C38 as stated: when len(base) + 1 + hash_suffix_length > max_sku_length,
\* a conflict on the base is followed by no other insert and the call
\* returns ('', CONFLICT_UNRESOLVED).
C38_OversizedSuffixLeavesConflictUnresolved ==
    /\ SuffixesGrowAndTruncatedBaseStaysUnresolved
    /\ \A p \in Procs :
          LET c == call[p]
          IN  (/\ BaseConflict(c)
               /\ Len(c.base_candidate) + 1 + opts.hash_suffix_length
                     > opts.max_sku_length)
                 => OnlyTheBaseWasTried(p)

\* C38, amended: the same, when
\* len(base) + 1 + min(hash_suffix_length, 10) > max_sku_length.
C38_OversizedCappedSuffixLeavesConflictUnresolved ==
    /\ SuffixesGrowAndTruncatedBaseStaysUnresolved
    /\ \A p \in Procs :
          LET c == call[p]
          IN  (/\ BaseConflict(c)
               /\ Len(c.base_candidate) + 1
                     + Min(opts.hash_suffix_length, HashSuffixCap)
                     > opts.max_sku_length)
                 => OnlyTheBaseWasTried(p)

\* a call whose truncated base was taken has returned unresolved after the
\* one insert, every suffixed candidate skipped
C38_Witness ==
    \E p \in Procs :
       /\ Done(p)
       /\ BaseConflict(call[p])
       /\ BaseTruncated(call[p])
       /\ Len(call[p].base_candidate) + 1
             + Min(opts.hash_suffix_length, HashSuffixCap) > opts.max_sku_length
       /\ Len(call[p].log) = 1
       /\ call[p].attempt = call[p].max_retries
       /\ call[p].status = "conflict_unresolved"

\* the identifiers a call can return for its arguments: the base, then the
\* candidates of attempts 0 .. max_retries-1
Ladder(c) ==
    <<c.base_candidate>>
       \o [i \in 1..c.max_retries |-> ClaimedCandidate(c, i - 1)]

\* the call of p returns in this step, having met no store error
ReturnsNow(p) ==
    /\ db = "unique"
    /\ call[p].pc \in {"insert_base", "retry"}
    /\ call'[p].pc = "done"
    /\ NoDbError(call'[p].log)

\* C39: against a store that enforces uniqueness, a generate_sku call that
\* succeeds returns the first of base, candidate 0, ..., candidate
\* max_retries-1 that the store does not hold yet, the base with INSERTED
\* and a candidate with CONFLICT_RESOLVED, and adds it to the store, so of
\* repeated identical calls at most max_retries + 1 succeed; a call made
\* when the store holds the base and all max_retries candidates returns
\* ('', CONFLICT_UNRESOLVED).
C39_RepeatedCallsClimbTheLadder ==
    [][\A p \in Procs :
          ReturnsNow(p) =>
             LET c == call'[p]
                 rows == store[genOf[p]]
                 ladder == Ladder(c)
             IN  /\ c.sku # <<>> =>
                       \E k \in DOMAIN ladder :
                          /\ c.sku = ladder[k]
                          /\ ladder[k] \notin rows
                          /\ \A j \in 1..(k - 1) : ladder[j] \in rows
                          /\ c.status = IF k = 1 THEN "inserted"
                                        ELSE "conflict_resolved"
                          /\ store'[genOf[p]] = rows \cup {c.sku}
                 /\ c.sku = <<>> =>
                       /\ c.status = "conflict_unresolved"
                       /\ store'[genOf[p]] = rows
                       /\ \A k \in DOMAIN ladder :
                             ladder[k] \in rows \/ candidate_too_long(ladder[k])
                 /\ (\A k \in DOMAIN ladder : ladder[k] \in c.store0) =>
                       (c.sku = <<>> /\ c.status = "conflict_unresolved")]_vars

\* on a store that held the base and candidate 0, one call has returned
\* candidate 1, and an identical call after it has found every identifier
\* taken and returned unresolved
C39_Witness ==
    \E p, q \in Procs :
       /\ db = "unique"
       /\ Done(p) /\ Done(q)
       /\ SameArguments(call[p], call[q])
       /\ NoDbError(call[p].log) /\ NoDbError(call[q].log)
       /\ call[p].status = "conflict_resolved"
       /\ call[p].sku = Ladder(call[p])[1 + call[p].max_retries]
       /\ Len(call[p].log) = 1 + call[p].max_retries
       /\ call[q].status = "conflict_unresolved"
       /\ \A k \in DOMAIN Ladder(call[q]) : Ladder(call[q])[k] \in call[q].store0

---------------------------------------------------------------------------
(* Claims about the review task of a borderline image *)

\* a review task is created in this step for the outcome of the last
\* validation, its priority left to the queue to compute
TaskForOutcomeWithAutoPriority ==
    /\ answer' # answer
    /\ answer'.op = "create_review_task"
    /\ answer'.validation_score = metrics.overall_score \div 100
    /\ ~answer'.priority_arg.given
    /\ queue_opts.enable_priority_assignment

\* C40: with the thresholds 0.85 and 0.70, a review task created for an
\* outcome whose status is NEEDS_REVIEW, with the priority computed by the
\* queue, has priority 4 or 5, never 1, 2 or 3.
C40_NeedsReviewGetsPriorityFourOrFive ==
    [][(/\ validator.accept_score_threshold = 850
        /\ validator.review_score_threshold = 700
        /\ metrics.status = "needs_review"
        /\ TaskForOutcomeWithAutoPriority)
          => answer'.priority \in {4, 5}]_vars

\* an image scored exactly 0.70 is NEEDS_REVIEW and its task has the
\* computed priority 4
C40_Witness ==
    /\ metrics.status = "needs_review"
    /\ metrics.overall_score = 70000
    /\ answer.op = "create_review_task"
    /\ answer.validation_score = 700
    /\ ~answer.priority_arg.given
    /\ queue_opts.enable_priority_assignment
    /\ answer.priority = 4

=============================================================================
